---- MODULE Spec2Model ----
(***************************************************************************)
(* State-machine model of the football_app gateway (src/app.py): the       *)
(* request limiter, the /matches view with its retry loop                  *)
(* (get_with_retries), form validation, the response cache decorator,      *)
(* team_details, and add_favorite with the favorites file.                 *)
(***************************************************************************)
EXTENDS Integers, Sequences, FiniteSets, TLC

\* ------------------------------------------------------------------ bounds
MaxRequests == 2                \* requests accepted by the server in one run
Threads == {"t1", "t2"}         \* worker threads handling requests concurrently
Instants == {301, 3600}         \* instants the clock is advanced to
\* a request: path, caller address, form fields or URL argument, query string
Request(path, caller, league, gameweek, team_id, team_name) ==
    [path |-> path, caller |-> caller, league |-> league, gameweek |-> gameweek,
     query |-> "", team_id |-> team_id, team_name |-> team_name]
\* the POST /matches requests tried
MatchesInputs ==
    { Request("/matches", "c1", "PL", "5",  "None", "None"),
      Request("/matches", "c2", "SA", "5",  "None", "None"),
      Request("/matches", "c1", "XX", "5",  "None", "None"),
      Request("/matches", "c2", "PL", "39", "None", "None") }
\* the GET /team/<team_id> requests tried
TeamInputs ==
    { Request("/team", "c1", "None", "None", "57", "None"),
      Request("/team", "c1", "None", "None", "61", "None") }
\* the POST /favorite requests tried
FavoriteInputs ==
    { Request("/favorite", "c1", "None", "None", "57", "Arsenal"),
      Request("/favorite", "c1", "None", "None", "61", "Chelsea") }
RequestInputs == MatchesInputs \cup TeamInputs \cup FavoriteInputs
\* the mixes of requests the clients send in one run
PL5 == Request("/matches", "c1", "PL", "5", "None", "None")
RetryMix == {PL5, Request("/matches", "c2", "PL", "39", "None", "None")}
QuotaMix == {PL5, Request("/matches", "c1", "XX", "5", "None", "None"),
             Request("/matches", "c2", "PL", "39", "None", "None")}
KeysMix == {PL5, Request("/matches", "c2", "SA", "5", "None", "None")}
TeamMix == TeamInputs
FavoritesMix == FavoriteInputs \cup {PL5, Request("/team", "c1", "None", "None", "57", "None")}
Mixes == {RetryMix, QuotaMix, KeysMix, TeamMix, FavoritesMix}
Callers == {r.caller : r \in RequestInputs}
QueryInputs == {r.query : r \in RequestInputs}

\* --------------------------------------------------------- program constants
max_retries == 3                \* get_with_retries(url, headers, max_retries=3)
InitialRetryDelay == 1          \* retry_delay = 1
CACHE_TIMEOUT == 300            \* cache.cached(timeout=300, ...)
DailyCap == 200                 \* "200 per day"
HourlyCap == 50                 \* "50 per hour"
SecondsPerDay == 86400
SecondsPerHour == 3600
MinGameweek == 1                \* range(1, 39)
MaxGameweek == 38

None == "None"
Absent == "<absent>"            \* a key the upstream JSON object does not have

\* ------------------------------------------------------------- form (126-137)
LeagueChoices == {"PL", "SA", "BL1", "FL1", "PD", "EC"}
GameweekChoices == {ToString(i) : i \in MinGameweek..MaxGameweek}

validate_league_only(form) == form.league \in LeagueChoices

\* form.validate_on_submit(): POST, and every field's data is one of its choices
validate_on_submit(form) ==
    /\ form.league \in LeagueChoices
    /\ form.gameweek \in GameweekChoices

\* ------------------------------------------------------------------ upstream
\* What one requests.get() can produce: a response with a status, or a
\* transport-level exception (no response at all).
\* upstream match objects: homeTeam.{id,name}, awayTeam.{id,name}, utcDate,
\* venue (a string, null, or no such key), status, score, and fields the view drops
UpstreamMatch(home, homeId, away, awayId, date, venue, status, score) ==
    [homeTeam |-> [id |-> homeId, name |-> home], awayTeam |-> [id |-> awayId, name |-> away],
     utcDate |-> date, venue |-> venue, status |-> status, score |-> score,
     matchday |-> 5]
MatchA == UpstreamMatch("Arsenal", 57, "Chelsea", 61, "2024-09-14T14:00:00Z", "Emirates",
                        "FINISHED", "2-1")
MatchB == UpstreamMatch("Everton", 62, "Fulham", 63, "2024-09-15T16:30:00Z", Absent,
                        "TIMED", "None")
MatchC == UpstreamMatch("Leeds", 341, "Burnley", 328, "2024-09-16T19:00:00Z", None,
                        "SCHEDULED", "None")
\* a match object without the key 'score'
MatchD == UpstreamMatch("Wolves", 76, "Brentford", 402, "2024-09-17T19:00:00Z", "Molineux",
                        "SCHEDULED", Absent)
NoTeam == [id |-> None, name |-> None]
\* JSON bodies tried: three matches, no 'matches' key, a match lacking a key
Bodies == { [has_matches |-> TRUE,  matches |-> <<MatchA, MatchB, MatchC>>, team |-> NoTeam],
            [has_matches |-> FALSE, matches |-> <<>>, team |-> NoTeam],
            [has_matches |-> TRUE,  matches |-> <<MatchA, MatchD>>, team |-> NoTeam] }
\* the upstream's team object for /v4/teams/{team_id}
TeamBody(team_id) == [has_matches |-> FALSE, matches |-> <<>>,
                      team |-> [id |-> team_id, name |-> "Team " \o team_id]]
NoBody == [has_matches |-> FALSE, matches |-> <<>>, team |-> NoTeam]
OtherErrorStatuses == {404, 500}   \* non-429 error statuses tried
Outcomes ==
    {[kind |-> "response", status |-> 200, body |-> b] : b \in Bodies}
    \cup {[kind |-> "response", status |-> 429, body |-> NoBody]}
    \cup {[kind |-> "response", status |-> s, body |-> NoBody] : s \in OtherErrorStatuses}
    \cup {[kind |-> "transport", status |-> 0, body |-> NoBody]}
\* the answers the upstream gives in one run: any of them, or only some
Ok200 == [kind |-> "response", status |-> 200,
          body |-> [has_matches |-> TRUE, matches |-> <<MatchA, MatchB, MatchC>>,
                    team |-> NoTeam]]
Err500 == [kind |-> "response", status |-> 500, body |-> NoBody]
Err404 == [kind |-> "response", status |-> 404, body |-> NoBody]
NoMatches200 == [kind |-> "response", status |-> 200,
                 body |-> [has_matches |-> FALSE, matches |-> <<>>, team |-> NoTeam]]
Malformed200 == [kind |-> "response", status |-> 200,
                 body |-> [has_matches |-> TRUE, matches |-> <<MatchA, MatchD>>,
                           team |-> NoTeam]]
Unreachable == [kind |-> "transport", status |-> 0, body |-> NoBody]
\* what the upstream can answer to the URL built for request r (159, 204)
OutcomesFor(r, answering) ==
    IF r.path = "/team"
    THEN {[kind |-> "response", status |-> 200, body |-> TeamBody(r.team_id)]}
         \cup {o \in answering : o.status # 200}
    ELSE answering

\* response.raise_for_status(): HTTPError for 4xx and 5xx
raises_for_status(status) == status >= 400 /\ status < 600

\* ------------------------------------------------------------- exceptions
\* requests.HTTPError raised by raise_for_status (line 110)
HTTPError(status) ==
    [type |-> "HTTPError",
     msg  |-> ToString(status) \o (IF status < 500 THEN " Client Error" ELSE " Server Error")]
\* requests.ConnectionError / Timeout raised by requests.get (line 109)
ConnectionError ==
    [type |-> "ConnectionError",
     msg  |-> "HTTPSConnectionPool(host='api.football-data.org', port=443): Max retries exceeded with url"]
\* raise Exception("Max retries exceeded") (line 121)
LastHTTPError == [type |-> "HTTPError", msg |-> "429 Client Error"]
MaxRetriesExceeded == [type |-> "Exception", msg |-> "Max retries exceeded"]
NoException == [type |-> None, msg |-> None]
\* str(e) (line 189)
str(e) == e.msg

\* --------------------------------------------------- get_with_retries (104-121)
range_one_more(attempt, n) == attempt < n + 1

\* for attempt in range(max_retries): is there another iteration?
range_has_next(attempt, n) == attempt < n

DispositionRetryAnyHTTPError(o) ==
    IF o.kind = "response"
    THEN IF o.status < 400 \/ o.status >= 600 THEN "return" ELSE "sleep"
    ELSE "propagate"

DispositionRetryTransport(o) ==
    IF o.kind = "response"
    THEN IF o.status < 400 \/ o.status >= 600 THEN "return"
         ELSE IF o.status = 429 THEN "sleep" ELSE "raise"
    ELSE "sleep"

\* What the body of the loop does with the outcome of requests.get:
\*   "return"    - raise_for_status passed, return response       (110-111)
\*   "sleep"     - HTTPError with status 429: sleep, double delay   (113-117)
\*   "raise"     - any other HTTPError: raise e                     (118-120)
\*   "propagate" - not an HTTPError: no except clause matches       (112)
Disposition(o) ==
    IF o.kind = "response"
    THEN IF ~raises_for_status(o.status) THEN "return"
         ELSE IF o.status = 429 THEN "sleep" ELSE "raise"
    ELSE "propagate"

\* the exception that leaves get_with_retries for outcome o
ExceptionOf(o) == IF o.kind = "response" THEN HTTPError(o.status) ELSE ConnectionError

\* retry_delay *= 2 (line 117)
next_delay(d) == d * 2

\* -------------------------------------------------------- matches (163-192)
\* the dict built per match (172-181); match.get('venue', 'N/A')
MatchSummaryNoDefault(m) ==
    [homeTeam |-> m.homeTeam.name, homeTeamId |-> m.homeTeam.id,
     awayTeam |-> m.awayTeam.name, awayTeamId |-> m.awayTeam.id,
     utcDate |-> m.utcDate, venue |-> m.venue, status |-> m.status, score |-> m.score]
MatchSummary(m) ==
    [homeTeam |-> m.homeTeam.name, homeTeamId |-> m.homeTeam.id,
     awayTeam |-> m.awayTeam.name, awayTeamId |-> m.awayTeam.id,
     utcDate |-> m.utcDate,
     venue |-> IF m.venue = Absent THEN "N/A" ELSE m.venue,
     status |-> m.status, score |-> m.score]
matches_info(body) == [i \in 1..Len(body.matches) |-> MatchSummary(body.matches[i])]

NoMatchesFound == "No matches found for the given league code and gameweek."

\* the rendered response: what render_template receives, and the HTTP status
Page(status, form_ok, has, ms, err) ==
    [status |-> status, form_valid |-> form_ok, has_matches |-> has,
     matches |-> ms, error |-> err, favorites |-> <<>>, team |-> NoTeam]
NoPage == Page(0, FALSE, FALSE, <<>>, None)
\* line 192 after the except clause (188-190)
PageOfExceptionMasked(e) == Page(200, TRUE, TRUE, <<>>, None)
PageOfException(e) == Page(200, TRUE, FALSE, <<>>, str(e))
\* match['score'] on a match without that key raises KeyError inside the try
KeyError(key) == [type |-> "KeyError", msg |-> "'" \o key \o "'"]
MissingKey(m) == m.score = Absent
\* line 192 after a returned response (168-187)
PageOfBody(body) ==
    IF ~body.has_matches
    THEN Page(200, TRUE, FALSE, <<>>, NoMatchesFound)
    ELSE IF \E i \in 1..Len(body.matches) : MissingKey(body.matches[i])
    THEN PageOfException(KeyError("score"))
    ELSE Page(200, TRUE, TRUE, matches_info(body), None)
\* line 198: validation failed, form.errors is rendered
PageInvalid == Page(200, FALSE, FALSE, <<>>, None)
\* team_details: render_template('team.html', team=team_info, error=error) (208-219)
TeamPageOfBody(body) == [Page(200, FALSE, FALSE, <<>>, None) EXCEPT !.team = body.team]
TeamPageOfException(e) == Page(200, FALSE, FALSE, <<>>, str(e))
\* add_favorite: redirect(url_for('index')) (232)
PageRedirect == Page(302, FALSE, FALSE, <<>>, None)

\* ------------------------------------------------------- favorites (86-99, 222-232)
\* the favorites file: absent, or a JSON list of {id, name}.  A load reads it
\* and a save replaces it, each as one step.
NoFile == [exists |-> FALSE, items |-> <<>>]
\* load_favorites (86-91)
load_favorites_empty(file) == <<>>
load_favorites(file) == IF file.exists THEN file.items ELSE <<>>
\* save_favorites (96-99)
save_favorites(favs) == [exists |-> TRUE, items |-> favs]
\* team_id in [fav['id'] for fav in favorites] (228)
is_favorite_never(team_id, favs) == FALSE
is_favorite(team_id, favs) == \E i \in 1..Len(favs) : favs[i].id = team_id
\* favorites.append({'id': team_id, 'name': team_name}) (229)
append_favorite(favs, team_id, team_name) == Append(favs, [id |-> team_id, name |-> team_name])
\* the favorites=load_favorites() argument of render_template (192, 198)
WithFavorites(pg, favs) == [pg EXCEPT !.favorites = favs]

\* the limiter's RateLimitExceeded response
PageTooManyRequests == Page(429, FALSE, FALSE, <<>>, "Too Many Requests")

\* ------------------------------------------------------ route and cache (148-150)
ViewFunctionCached == "cached"

\* @cache.cached(...) is written above @app.route(...): route() runs first and
\* registers the undecorated function; the cached wrapper is only bound to the
\* module name `matches`, which no request goes through.
ViewFunction == "matches"

\* cache key of cached(query_string=True): request path and query arguments
CacheKeys == {<<r.path, r.query>> : r \in RequestInputs}
make_cache_key(r) == <<r.path, r.query>>
NoEntry == [present |-> FALSE, value |-> NoPage, expires |-> 0, origin |-> None,
            key |-> <<None, None>>]
\* SimpleCache.get: the entry unless it expired
cache_get(c, k, t) == IF c[k].present /\ c[k].expires > t THEN c[k] ELSE NoEntry

\* ------------------------------------------------------------ limiter (59-64)
\* one fixed-window counter: expire lazily, then count the hit
Expired(count, expiry, t) == count > 0 /\ expiry <= t
HitCount(count, expiry, t) == IF Expired(count, expiry, t) THEN 1 ELSE count + 1
HitExpiryAligned(count, expiry, t, window) ==
    IF HitCount(count, expiry, t) = 1 THEN ((t \div window) + 1) * window ELSE expiry
HitExpiry(count, expiry, t, window) ==
    IF HitCount(count, expiry, t) = 1 THEN t + window ELSE expiry
WithinLimitOffByOne(count, cap) == count <= cap + 1

\* the hit is within the limit
WithinLimit(count, cap) == count <= cap
AfterHitIgnored(ok, nxt) == nxt

\* a breached limit aborts the request before the view runs
AfterHit(ok, nxt) == IF ok THEN nxt ELSE "denied"

\* =================================================================== state
VARIABLES
    now,          \* the clock, in seconds
    started,      \* number of requests accepted so far
    traffic,      \* the requests the clients send in this run
    upstream,     \* the answers the upstream gives in this run
    counts,       \* limiter storage: per caller, the day and the hour counter
    expiry,       \* limiter storage: per caller, when each window ends
    passes,       \* per caller and window, the hits of the window found within the limit
    cache,        \* Response Cache (flask-caching SimpleCache)
    favorites,    \* the favorites file (FAVORITES_FILE)
    lastOk,       \* per (league, gameweek): when a fetch of it last succeeded, -1 if never
    added,        \* team ids whose add_favorite request has completed
    pc,           \* per thread: where the request it handles stands
    req,          \* per thread: the request
    attempt,      \* per thread: iterations of the retry loop begun
    retry_delay,  \* per thread: get_with_retries' local retry_delay
    answers,      \* per thread: outcomes of the upstream calls of this request
    slept,        \* per thread: arguments of the time.sleep calls of this request
    exc,          \* per thread: the exception that left get_with_retries
    loaded,       \* per thread: add_favorite's local list `favorites`
    page,         \* per thread: the response rendered
    warm,         \* per thread: the view was entered within the timeout of a successful fetch of its key
    stale,        \* per thread: the view was entered more than the timeout after the last successful fetch of its key
    joined,       \* per thread: the view was entered while another request was fetching the same key
    hitKey,       \* per thread: the (league, gameweek) of the request whose cache entry answered this one
    breached,     \* per thread: a limit was found exceeded for this request
    cacheOps      \* per thread: cache reads and writes made for this request

runVars == <<traffic, upstream>>
limiterVars == <<counts, expiry, passes>>
fetchVars == <<attempt, retry_delay, answers, slept, exc>>
entryVars == <<warm, stale, joined, hitKey>>
vars == <<now, started, traffic, upstream, counts, expiry, passes, cache, favorites, lastOk, added,
          pc, req, attempt, retry_delay, answers, slept, exc, loaded, page, warm, stale,
          joined, hitKey, breached, cacheOps>>

NoReq == [path |-> None, caller |-> None, league |-> None, gameweek |-> None, query |-> None,
          team_id |-> None, team_name |-> None]
KeyOf(r) == <<r.league, r.gameweek>>
NoKey == <<None, None>>
ValidKeys == {KeyOf(r) : r \in {q \in MatchesInputs : validate_on_submit(q)}}
\* lastOk keeps a time only while it is within the cache timeout of the clock;
\* an older fetch is remembered as LongAgo.
LongAgo == -2
Recent(l, t) == [k \in DOMAIN l |-> IF l[k] >= 0 /\ t - l[k] > CACHE_TIMEOUT
                                    THEN LongAgo ELSE l[k]]

\* Counter values a caller can have reached when the run starts: nothing yet,
\* one below the hourly cap or at it within the first hour of its day, one
\* below the daily cap with the hourly window just over, or at the daily cap
\* with an hour of its day left.
StartCounts ==
    { [day |-> 0, hour |-> 0, dayEnds |-> 0, hourEnds |-> 0],
      [day |-> HourlyCap - 1, hour |-> HourlyCap - 1,
       dayEnds |-> SecondsPerDay, hourEnds |-> SecondsPerHour],
      [day |-> HourlyCap, hour |-> HourlyCap,
       dayEnds |-> SecondsPerDay, hourEnds |-> SecondsPerHour],
      [day |-> DailyCap - 1, hour |-> 0,
       dayEnds |-> SecondsPerDay - SecondsPerHour, hourEnds |-> 0],
      [day |-> DailyCap, hour |-> 0, dayEnds |-> SecondsPerHour, hourEnds |-> 0] }
NoCounts == [day |-> 0, hour |-> 0, dayEnds |-> 0, hourEnds |-> 0]
\* The runs: a mix of requests, the answers of the upstream, the counters of
\* caller c1 and the favorites file at the start.  Every answer in Outcomes
\* is given in some run: the retry chains (429) with one key, the bodies and
\* 404 with two keys.
Run(mix, answering, start, file) ==
    [mix |-> mix, answering |-> answering, start |-> start, file |-> file]
Scenarios ==
    {Run(RetryMix, Outcomes \ {Err404, NoMatches200, Malformed200}, NoCounts, NoFile)}
    \cup {Run(QuotaMix, {Ok200, Err500}, s, NoFile) : s \in StartCounts}
    \cup {Run(KeysMix, {Ok200, Err404, NoMatches200, Malformed200}, NoCounts, NoFile)}
    \cup {Run(TeamMix, {Ok200, Err500, Unreachable}, NoCounts, NoFile)}
    \cup {Run(FavoritesMix, {Ok200, Err500}, NoCounts, f) :
            f \in {NoFile, save_favorites(<<[id |-> "57", name |-> "Arsenal"]>>)}}

Init ==
    /\ now = 0
    /\ started = 0
    /\ \E sc \in Scenarios :
         /\ traffic = sc.mix
         /\ upstream = sc.answering
         /\ favorites = sc.file
         /\ counts = [c \in Callers |-> IF c = "c1"
                                         THEN [day |-> sc.start.day, hour |-> sc.start.hour]
                                         ELSE [day |-> 0, hour |-> 0]]
         /\ expiry = [c \in Callers |-> IF c = "c1"
                                         THEN [day |-> sc.start.dayEnds, hour |-> sc.start.hourEnds]
                                         ELSE [day |-> 0, hour |-> 0]]
         /\ passes = counts
    /\ cache = [k \in CacheKeys |-> NoEntry]
    /\ lastOk = [k \in ValidKeys |-> -1]
    /\ added = {}
    /\ pc = [t \in Threads |-> "idle"]
    /\ req = [t \in Threads |-> NoReq]
    /\ attempt = [t \in Threads |-> 0]
    /\ retry_delay = [t \in Threads |-> InitialRetryDelay]
    /\ answers = [t \in Threads |-> <<>>]
    /\ slept = [t \in Threads |-> <<>>]
    /\ exc = [t \in Threads |-> NoException]
    /\ loaded = [t \in Threads |-> <<>>]
    /\ page = [t \in Threads |-> NoPage]
    /\ warm = [t \in Threads |-> FALSE]
    /\ stale = [t \in Threads |-> FALSE]
    /\ joined = [t \in Threads |-> FALSE]
    /\ hitKey = [t \in Threads |-> NoKey]
    /\ breached = [t \in Threads |-> FALSE]
    /\ cacheOps = [t \in Threads |-> 0]

\* ================================================================= actions
\* What a fetch is for: the league and gameweek of a /matches request, the team
\* of a /team request (159, 204).
FetchKey(r) == IF r.path = "/team" THEN <<"team", r.team_id>> ELSE KeyOf(r)
Fetching(t) == pc[t] \in {"loop", "sleep"}

\* Where a request goes once its view has built the URL: the views keep no
\* table of fetches in flight, so whether or not another request is fetching
\* the same key, the request calls get_with_retries itself (166-167, 211-212).
AfterEntryCoalesced(isJoined) == IF isJoined THEN "done" ELSE "loop"
AfterEntry(isJoined) == "loop"

\* render_template at the end of a view (192, 198, 219).
RenderBody(r, body) ==
    IF r.path = "/team" THEN TeamPageOfBody(body)
    ELSE WithFavorites(PageOfBody(body), load_favorites(favorites))
RenderException(r, e) ==
    IF r.path = "/team" THEN TeamPageOfException(e)
    ELSE WithFavorites(PageOfException(e), load_favorites(favorites))
RenderInvalid == WithFavorites(PageInvalid, load_favorites(favorites))

\* A request arrives and a worker thread takes it.
Arrive(t) ==
    /\ pc[t] = "idle"
    /\ started < MaxRequests
    /\ \E r \in traffic : req' = [req EXCEPT ![t] = r]
    /\ started' = started + 1
    /\ pc' = [pc EXCEPT ![t] = "limit_day"]
    /\ UNCHANGED <<now, runVars, limiterVars, cache, favorites, lastOk, added, fetchVars,
                   loaded, page, entryVars, breached, cacheOps>>

\* The limiter's before_request hook hits "200 per day" (line 63).
HitDay(t) ==
    /\ pc[t] = "limit_day"
    /\ LET c   == req[t].caller
           n   == HitCount(counts[c].day, expiry[c].day, now)
           ok  == WithinLimit(n, DailyCap)
           nxt == AfterHit(ok, "limit_hour")
       IN /\ counts' = [counts EXCEPT ![c].day = n]
          /\ expiry' = [expiry EXCEPT ![c].day =
                            HitExpiry(counts[c].day, expiry[c].day, now, SecondsPerDay)]
          /\ passes' = [passes EXCEPT ![c].day =
                            (IF n = 1 THEN 0 ELSE @) + (IF ok THEN 1 ELSE 0)]
          /\ breached' = [breached EXCEPT ![t] = ~ok]
          /\ IF nxt = "denied"
             THEN /\ page' = [page EXCEPT ![t] = PageTooManyRequests]
                  /\ pc' = [pc EXCEPT ![t] = "done"]
             ELSE /\ pc' = [pc EXCEPT ![t] = nxt]
                  /\ UNCHANGED page
    /\ UNCHANGED <<now, started, runVars, cache, favorites, lastOk, added, req, fetchVars,
                   loaded, entryVars, cacheOps>>

\* The limiter's before_request hook hits "50 per hour" (line 63).
HitHour(t) ==
    /\ pc[t] = "limit_hour"
    /\ LET c   == req[t].caller
           n   == HitCount(counts[c].hour, expiry[c].hour, now)
           ok  == WithinLimit(n, HourlyCap)
           nxt == AfterHit(ok, "view")
       IN /\ counts' = [counts EXCEPT ![c].hour = n]
          /\ expiry' = [expiry EXCEPT ![c].hour =
                            HitExpiry(counts[c].hour, expiry[c].hour, now, SecondsPerHour)]
          /\ passes' = [passes EXCEPT ![c].hour =
                            (IF n = 1 THEN 0 ELSE @) + (IF ok THEN 1 ELSE 0)]
          /\ breached' = [breached EXCEPT ![t] = breached[t] \/ ~ok]
          /\ IF nxt = "denied"
             THEN /\ page' = [page EXCEPT ![t] = PageTooManyRequests]
                  /\ pc' = [pc EXCEPT ![t] = "done"]
             ELSE /\ pc' = [pc EXCEPT ![t] = nxt]
                  /\ UNCHANGED page
    /\ UNCHANGED <<now, started, runVars, cache, favorites, lastOk, added, req, fetchVars,
                   loaded, entryVars, cacheOps>>

\* The end of a fetching view: the page is rendered (192, 198, 219); the cached
\* wrapper, where a /matches request goes through it, stores what the view
\* returned.
Complete(t, pg, fetched) ==
    /\ page' = [page EXCEPT ![t] = pg]
    /\ pc' = [pc EXCEPT ![t] = "done"]
    /\ IF ViewFunction = "cached" /\ req[t].path = "/matches"
       THEN /\ cache' = [cache EXCEPT ![make_cache_key(req[t])] =
                            [present |-> TRUE, value |-> pg, expires |-> now + CACHE_TIMEOUT,
                             origin |-> IF breached[t] THEN "denied"
                                        ELSE IF fetched THEN "2xx" ELSE "failure",
                             key |-> KeyOf(req[t])]]
            /\ cacheOps' = [cacheOps EXCEPT ![t] = @ + 1]
       ELSE UNCHANGED <<cache, cacheOps>>
    /\ lastOk' = IF fetched /\ pg.has_matches
                 THEN [lastOk EXCEPT ![KeyOf(req[t])] = now] ELSE lastOk

\* Flask dispatches the request to the view registered for /matches (148-162).
View(t) ==
    /\ pc[t] = "view"
    /\ req[t].path = "/matches"
    /\ LET r == req[t]
           e == cache_get(cache, make_cache_key(r), now)
           valid == validate_on_submit(r)
       IN /\ warm' = [warm EXCEPT ![t] =
                        /\ valid
                        /\ lastOk[KeyOf(r)] >= 0
                        /\ now - lastOk[KeyOf(r)] <= CACHE_TIMEOUT]
          /\ stale' = [stale EXCEPT ![t] = valid /\ lastOk[KeyOf(r)] = LongAgo]
          /\ joined' = [joined EXCEPT ![t] =
                        /\ valid
                        /\ \E u \in Threads \ {t} :
                             Fetching(u) /\ FetchKey(req[u]) = FetchKey(r)]
          /\ IF ViewFunction = "cached" /\ e.present
             THEN /\ page' = [page EXCEPT ![t] = e.value]
                  /\ hitKey' = [hitKey EXCEPT ![t] = e.key]
                  /\ pc' = [pc EXCEPT ![t] = "done"]
                  /\ cacheOps' = [cacheOps EXCEPT ![t] = @ + 1]
                  /\ UNCHANGED <<cache, lastOk, attempt, retry_delay>>
             ELSE IF valid
             THEN /\ pc' = [pc EXCEPT ![t] = AfterEntry(joined'[t])]
                  /\ attempt' = [attempt EXCEPT ![t] = 0]
                  /\ retry_delay' = [retry_delay EXCEPT ![t] = InitialRetryDelay]
                  /\ cacheOps' = [cacheOps EXCEPT ![t] =
                                     @ + (IF ViewFunction = "cached" THEN 1 ELSE 0)]
                  /\ UNCHANGED <<cache, lastOk, page, hitKey>>
             ELSE /\ Complete(t, RenderInvalid, FALSE)
                  /\ UNCHANGED <<attempt, retry_delay, hitKey>>
    /\ UNCHANGED <<now, started, runVars, limiterVars, favorites, added, req, answers,
                   slept, exc, loaded, breached>>

\* Flask dispatches the request to team_details (201-211): no form, no cache.
TeamView(t) ==
    /\ pc[t] = "view"
    /\ req[t].path = "/team"
    /\ joined' = [joined EXCEPT ![t] =
                    \E u \in Threads \ {t} :
                        Fetching(u) /\ FetchKey(req[u]) = FetchKey(req[t])]
    /\ pc' = [pc EXCEPT ![t] = AfterEntry(joined'[t])]
    /\ attempt' = [attempt EXCEPT ![t] = 0]
    /\ retry_delay' = [retry_delay EXCEPT ![t] = InitialRetryDelay]
    /\ UNCHANGED <<now, started, runVars, limiterVars, cache, favorites, lastOk, added,
                   req, answers, slept, exc, loaded, page, warm, stale, hitKey, breached,
                   cacheOps>>

\* One iteration of the retry loop up to the sleep: requests.get, raise_for_status
\* and the except clause (106-120); a return or a raise ends the view as well.
Attempt(t) ==
    /\ pc[t] = "loop"
    /\ range_has_next(attempt[t], max_retries)
    /\ attempt' = [attempt EXCEPT ![t] = @ + 1]
    /\ \E o \in OutcomesFor(req[t], upstream) :
         /\ answers' = [answers EXCEPT ![t] = Append(@, o)]
         /\ CASE Disposition(o) = "return" ->
                   /\ Complete(t, RenderBody(req[t], o.body), TRUE)
                   /\ UNCHANGED exc
              [] Disposition(o) = "sleep" ->
                   /\ pc' = [pc EXCEPT ![t] = "sleep"]
                   /\ UNCHANGED <<exc, page, cache, cacheOps, lastOk>>
              [] OTHER ->
                   /\ exc' = [exc EXCEPT ![t] = ExceptionOf(o)]
                   /\ Complete(t, RenderException(req[t], ExceptionOf(o)), FALSE)
    /\ UNCHANGED <<now, started, runVars, limiterVars, favorites, added, req, retry_delay,
                   slept, loaded, entryVars, breached>>

\* time.sleep(retry_delay); retry_delay *= 2 (116-117).  The thread is
\* suspended for the duration recorded in `slept`; the clock moves in Tick,
\* whose instants are coarser than any backoff.
Sleep(t) ==
    /\ pc[t] = "sleep"
    /\ slept' = [slept EXCEPT ![t] = Append(@, retry_delay[t])]
    /\ retry_delay' = [retry_delay EXCEPT ![t] = next_delay(@)]
    /\ pc' = [pc EXCEPT ![t] = "loop"]
    /\ UNCHANGED <<now, started, runVars, limiterVars, cache, favorites, lastOk, added,
                   req, attempt, answers, exc, loaded, page, entryVars, breached, cacheOps>>

\* The loop is over: raise Exception("Max retries exceeded") (121), caught at
\* 188 or 216.
Exhausted(t) ==
    /\ pc[t] = "loop"
    /\ ~range_has_next(attempt[t], max_retries)
    /\ exc' = [exc EXCEPT ![t] = MaxRetriesExceeded]
    /\ Complete(t, RenderException(req[t], MaxRetriesExceeded), FALSE)
    /\ UNCHANGED <<now, started, runVars, limiterVars, favorites, added, req, attempt,
                   retry_delay, answers, slept, loaded, entryVars, breached>>

\* add_favorite up to line 227: the form fields are read and the stored list
\* is loaded into the local `favorites`.
FavLoad(t) ==
    /\ pc[t] = "view"
    /\ req[t].path = "/favorite"
    /\ loaded' = [loaded EXCEPT ![t] = load_favorites(favorites)]
    /\ pc' = [pc EXCEPT ![t] = "loaded"]
    /\ UNCHANGED <<now, started, runVars, limiterVars, cache, favorites, lastOk, added,
                   req, fetchVars, page, entryVars, breached, cacheOps>>

\* add_favorite from line 228: membership test, append, save, redirect.
FavSave(t) ==
    /\ pc[t] = "loaded"
    /\ favorites' = IF ~is_favorite(req[t].team_id, loaded[t])
                    THEN save_favorites(append_favorite(loaded[t], req[t].team_id,
                                                        req[t].team_name))
                    ELSE favorites
    /\ added' = added \cup {req[t].team_id}
    /\ page' = [page EXCEPT ![t] = PageRedirect]
    /\ pc' = [pc EXCEPT ![t] = "done"]
    /\ UNCHANGED <<now, started, runVars, limiterVars, cache, lastOk, req, fetchVars,
                   loaded, entryVars, breached, cacheOps>>

\* The response is sent; the thread is free again.
Respond(t) ==
    /\ pc[t] = "done"
    /\ pc' = [pc EXCEPT ![t] = "idle"]
    /\ req' = [req EXCEPT ![t] = NoReq]
    /\ attempt' = [attempt EXCEPT ![t] = 0]
    /\ retry_delay' = [retry_delay EXCEPT ![t] = InitialRetryDelay]
    /\ answers' = [answers EXCEPT ![t] = <<>>]
    /\ slept' = [slept EXCEPT ![t] = <<>>]
    /\ exc' = [exc EXCEPT ![t] = NoException]
    /\ loaded' = [loaded EXCEPT ![t] = <<>>]
    /\ page' = [page EXCEPT ![t] = NoPage]
    /\ warm' = [warm EXCEPT ![t] = FALSE]
    /\ stale' = [stale EXCEPT ![t] = FALSE]
    /\ joined' = [joined EXCEPT ![t] = FALSE]
    /\ hitKey' = [hitKey EXCEPT ![t] = NoKey]
    /\ breached' = [breached EXCEPT ![t] = FALSE]
    /\ cacheOps' = [cacheOps EXCEPT ![t] = 0]
    /\ UNCHANGED <<now, started, runVars, limiterVars, cache, favorites, lastOk, added>>

\* Time passes.
Tick ==
    /\ \E i \in Instants : i > now /\ now' = i
    /\ lastOk' = Recent(lastOk, now')
    /\ UNCHANGED <<started, runVars, limiterVars, cache, favorites, added, pc, req,
                   fetchVars, loaded, page, entryVars, breached, cacheOps>>

Next ==
    \/ \E t \in Threads : Arrive(t)
    \/ \E t \in Threads : HitDay(t)
    \/ \E t \in Threads : HitHour(t)
    \/ \E t \in Threads : View(t)
    \/ \E t \in Threads : TeamView(t)
    \/ \E t \in Threads : Attempt(t)
    \/ \E t \in Threads : Sleep(t)
    \/ \E t \in Threads : Exhausted(t)
    \/ \E t \in Threads : FavLoad(t)
    \/ \E t \in Threads : FavSave(t)
    \/ \E t \in Threads : Respond(t)
    \/ Tick

Spec == Init /\ [][Next]_vars

\* ================================================================== claims
Is429(o) == o.kind = "response" /\ o.status = 429
AllRateLimited(t) ==
    /\ Len(answers[t]) = 3
    /\ \A i \in 1..3 : Is429(answers[t][i])
\* the view function has been entered for the request of thread t
InView(t) == pc[t] \in {"loop", "sleep"} \/ (pc[t] = "done" /\ ~breached[t])

\* C1: once a getMatches call for a key has succeeded, a later call for the
\* same key entered within 300 s of it makes no upstream call.
C1_CacheHitWithinTTL ==
    \A t \in Threads : warm[t] => answers[t] = <<>>

\* C2: a fetch that is answered 429 three times in a row, by an upstream that
\* would then succeed, is over only after a fourth call, having slept 1, 2 and
\* 4 s, with the body of that call rendered and stored in the cache.
C2_ThreeRateLimitsThenSuccess ==
    \A t \in Threads :
        (pc[t] = "done" /\ Len(answers[t]) >= 3 /\ \A i \in 1..3 : Is429(answers[t][i]))
        => /\ Len(answers[t]) = 4
           /\ answers[t][4].status = 200
           /\ slept[t] = <<1, 2, 4>>
           /\ page[t].matches = matches_info(answers[t][4].body)
           /\ cache[make_cache_key(req[t])].present
           /\ cache[make_cache_key(req[t])].value = page[t]

\* C3: one fetch makes at most 3 upstream calls whatever the outcomes, can
\* always take its next step while it runs, and is over with either a returned
\* response or a raised exception, never both and never neither.
C3_AttemptsBounded ==
    \A t \in Threads :
        /\ Len(answers[t]) <= 3
        /\ pc[t] \in {"loop", "sleep"} => ENABLED (Attempt(t) \/ Sleep(t) \/ Exhausted(t))
        /\ (pc[t] = "done" /\ page[t].form_valid) =>
              LET returned == /\ answers[t] # <<>>
                              /\ answers[t][Len(answers[t])].kind = "response"
                              /\ answers[t][Len(answers[t])].status < 400
                  raised   == exc[t] # NoException
              IN (returned \/ raised) /\ ~(returned /\ raised)
C3_Witness ==
    \E t \in Threads : pc[t] = "done" /\ Len(answers[t]) = 3 /\ exc[t].type = "Exception"

\* C4: a fetch answered 429 on all 3 attempts fails with the exception
\* Exception("Max retries exceeded"), and the view's caller gets an error text
\* that no other failure (HTTP error, transport failure) produces.
C4_RetryExhaustedDistinct ==
    \A t \in Threads :
        pc[t] = "done" =>
            /\ AllRateLimited(t) =>
                  /\ exc[t].type = "Exception"
                  /\ ~page[t].has_matches
            /\ AllRateLimited(t) <=> page[t].error = "Max retries exceeded"
            /\ exc[t].type \in {"HTTPError", "ConnectionError"} =>
                  page[t].error # "Max retries exceeded"
C4_Witness ==
    \E t \in Threads :
        pc[t] = "done" /\ AllRateLimited(t) /\ page[t].error = "Max retries exceeded"

\* C5: every cache entry stems from an admitted request whose upstream call
\* returned 2xx; a failed, invalid or denied request leaves no entry, and a
\* valid call entered when no fetch of its key succeeded within the timeout
\* contacts the upstream.
C5_CacheOnlyFromAdmittedSuccess ==
    /\ \A k \in CacheKeys : cache[k].present => cache[k].origin = "2xx"
    /\ \A t \in Threads :
          (pc[t] = "done" /\ (breached[t] \/ ~page[t].form_valid \/ exc[t] # NoException))
          => LET e == cache[make_cache_key(req[t])]
             IN ~e.present \/ e.value # page[t]
    /\ \A t \in Threads :
          (pc[t] = "done" /\ page[t].form_valid /\ ~warm[t]) => answers[t] # <<>>
C5_Witness ==
    \E t, u \in Threads :
        /\ t # u
        /\ pc[t] = "done" /\ exc[t] # NoException
        /\ ~cache[make_cache_key(req[t])].present
        /\ KeyOf(req[u]) = KeyOf(req[t])
        /\ ~warm[u] /\ answers[u] # <<>>

\* C6: an HTTP error status other than 429 ends the fetch at once: it is the
\* last upstream call, no sleep follows it, and the error raised carries it.
C6_NoRetryOnOtherHTTPError ==
    \A t \in Threads : \A i \in 1..Len(answers[t]) :
        (answers[t][i].kind = "response" /\ answers[t][i].status >= 400
            /\ answers[t][i].status # 429)
        => /\ i = Len(answers[t])
           /\ pc[t] = "done"
           /\ Len(slept[t]) = i - 1
           /\ exc[t].type = "HTTPError"
           /\ page[t].error = ToString(answers[t][i].status)
                                 \o (IF answers[t][i].status < 500 THEN " Client Error"
                                                                   ELSE " Server Error")
C6_Witness ==
    \E t \in Threads :
        /\ pc[t] = "done" /\ Len(answers[t]) = 2
        /\ Is429(answers[t][1]) /\ answers[t][2].status = 500
        /\ slept[t] = <<1>>

\* C7 as stated: a fetch fails with the transport failure only once the
\* attempt budget is spent.
C7_TransportRetried ==
    \A t \in Threads :
        (pc[t] = "done" /\ exc[t].type = "ConnectionError") => Len(answers[t]) = 3

\* C7 amended: a transport failure is not retried: it is the last upstream
\* call of the fetch, no sleep follows it, and its exception reaches the view.
C7_TransportNotRetried ==
    \A t \in Threads : \A i \in 1..Len(answers[t]) :
        answers[t][i].kind = "transport"
        => /\ i = Len(answers[t])
           /\ pc[t] = "done"
           /\ Len(slept[t]) = i - 1
           /\ exc[t].type = "ConnectionError"
           /\ page[t].error = exc[t].msg
           /\ ~page[t].has_matches
C7_Witness ==
    \E t \in Threads :
        pc[t] = "done" /\ Len(answers[t]) = 1 /\ answers[t][1].kind = "transport"

\* the count a hit finds, after lazy expiry of the window
Found(count, ends) == IF count > 0 /\ ends <= now THEN 0 ELSE count

C9_DeniedTouchesNothing ==
    \A t \in Threads :
        breached[t] =>
            /\ pc[t] = "done"
            /\ page[t].status = 429
            /\ ~page[t].has_matches
            /\ answers[t] = <<>> /\ slept[t] = <<>> /\ attempt[t] = 0
            /\ exc[t] = NoException
            /\ cacheOps[t] = 0
C9_Witness ==
    \E t \in Threads : breached[t] /\ pc[t] = "done" /\ page[t].status = 429

\* C10: a call of the view with a league outside {PL, SA, BL1, FL1, PD, EC} or
\* a gameweek outside 1..38 ends with the form's validation failure, without
\* any upstream call and without any cache read or write.
C10_InvalidInputRejected ==
    \A t \in Threads :
        (/\ InView(t)
         /\ req[t].path = "/matches"
         /\ \/ req[t].league \notin {"PL", "SA", "BL1", "FL1", "PD", "EC"}
            \/ req[t].gameweek \notin {ToString(i) : i \in 1..38})
        => /\ pc[t] = "done"
           /\ ~page[t].form_valid
           /\ ~page[t].has_matches
           /\ answers[t] = <<>> /\ slept[t] = <<>>
           /\ cacheOps[t] = 0
C10_Witness ==
    \E t \in Threads :
        pc[t] = "done" /\ ~breached[t] /\ req[t].league = "XX" /\ ~page[t].form_valid

\* the last upstream answer of the request of thread t
LastAnswer(t) == answers[t][Len(answers[t])]
\* the page of thread t shows what the upstream answered to its own last call
OwnResult(t) ==
    /\ answers[t] # <<>>
    /\ (LastAnswer(t).kind = "response" /\ LastAnswer(t).status = 200) =>
          page[t] = [RenderBody(req[t], LastAnswer(t).body)
                        EXCEPT !.favorites = page[t].favorites]
    /\ ~(LastAnswer(t).kind = "response" /\ LastAnswer(t).status = 200) =>
          /\ exc[t] # NoException
          /\ page[t].error = exc[t].msg
          /\ page[t].matches = <<>>
          /\ page[t].team = NoTeam

C12_NoCrossKeyAnswer ==
    \A t \in Threads :
        /\ hitKey[t] # NoKey => hitKey[t] = <<req[t].league, req[t].gameweek>>
        /\ (pc[t] = "done" /\ req[t].path = "/matches" /\ page[t].has_matches) =>
              /\ answers[t] # <<>>
              /\ LastAnswer(t).status = 200
              /\ Len(page[t].matches) = Len(LastAnswer(t).body.matches)
        /\ (pc[t] = "done" /\ req[t].path = "/team" /\ page[t].team # NoTeam) =>
              /\ answers[t] # <<>>
              /\ page[t].team.id = req[t].team_id
C12_Witness ==
    \E t \in Threads :
        /\ pc[t] = "done" /\ req[t].league = "PL" /\ req[t].gameweek = "5"
        /\ page[t].has_matches
        /\ lastOk[<<"SA", "5">>] >= 0

\* the request of thread t passed the limiter and the form's validation
AdmittedValidMatches(t) ==
    /\ pc[t] = "done" /\ ~breached[t]
    /\ req[t].path = "/matches"
    /\ req[t].league \in {"PL", "SA", "BL1", "FL1", "PD", "EC"}
    /\ req[t].gameweek \in {ToString(i) : i \in 1..38}

\* C13: an admitted valid /matches request ends with the full list (one entry
\* per upstream match) and no error, or with an error and no list; after an
\* upstream failure it is the error, with the text of that failure.  A /team
\* request likewise ends with the team or with the error.
C13_ListOrError ==
    \A t \in Threads :
        /\ AdmittedValidMatches(t) =>
              /\ \/ /\ page[t].has_matches /\ page[t].error = None
                    /\ LastAnswer(t).kind = "response" /\ LastAnswer(t).status = 200
                    /\ Len(page[t].matches) = Len(LastAnswer(t).body.matches)
                 \/ /\ ~page[t].has_matches /\ page[t].matches = <<>>
                    /\ page[t].error # None
              /\ AllRateLimited(t) => page[t].error = "Max retries exceeded"
              /\ (LastAnswer(t).kind = "response" /\ LastAnswer(t).status \in {404, 500}) =>
                    /\ ~page[t].has_matches
                    /\ page[t].error = ToString(LastAnswer(t).status)
                          \o (IF LastAnswer(t).status < 500 THEN " Client Error"
                                                            ELSE " Server Error")
              /\ LastAnswer(t).kind = "transport" =>
                    /\ ~page[t].has_matches
                    /\ exc[t].type = "ConnectionError" /\ page[t].error = exc[t].msg
        /\ (pc[t] = "done" /\ ~breached[t] /\ req[t].path = "/team") =>
              \/ page[t].team # NoTeam /\ page[t].error = None /\ LastAnswer(t).status = 200
              \/ page[t].team = NoTeam /\ page[t].error # None /\ LastAnswer(t).status # 200
C13_Witness ==
    \E t \in Threads :
        /\ AdmittedValidMatches(t)
        /\ Len(answers[t]) = 2 /\ Is429(answers[t][1]) /\ answers[t][2].kind = "transport"
        /\ page[t].matches = <<>> /\ page[t].error # None

\* C14: the k-th sleep of a fetch lasts 2^(k-1) s, the delay of a fetch that
\* has not slept yet is 1 s whatever other fetches did, and every sleep is
\* followed by a further upstream attempt of the same fetch.
C14_SleepThenRetry ==
    \A t \in Threads :
        /\ \A k \in 1..Len(slept[t]) : slept[t][k] = 2 ^ (k - 1)
        /\ (pc[t] \in {"loop", "sleep"} /\ slept[t] = <<>>) => retry_delay[t] = 1
        /\ pc[t] = "done" => (slept[t] = <<>> \/ Len(answers[t]) > Len(slept[t]))

\* C15: a /matches request entered more than 300 s after the last successful
\* fetch of its key contacts the upstream, and when that succeeds the page is
\* stored in the cache under its key, live for the next 300 s.
C15_RefreshAfterExpiry ==
    \A t \in Threads :
        (pc[t] = "done" /\ stale[t] /\ page[t].has_matches) =>
            /\ answers[t] # <<>>
            /\ cache[make_cache_key(req[t])].present
            /\ cache[make_cache_key(req[t])].value = page[t]
            /\ cache[make_cache_key(req[t])].expires > now

\* The run starts 3299 s into a clock hour: the hour turns at 301.
ClockHour(t) == (t + 3299) \div 3600

C17_ShapedLikeUpstream ==
    \A t \in Threads :
        (pc[t] = "done" /\ page[t].has_matches) =>
            LET up == LastAnswer(t).body.matches
                ms == page[t].matches
            IN /\ Len(ms) = Len(up)
               /\ \A i \in 1..Len(up) :
                     /\ ms[i].homeTeam = up[i].homeTeam.name
                     /\ ms[i].homeTeamId = up[i].homeTeam.id
                     /\ ms[i].awayTeam = up[i].awayTeam.name
                     /\ ms[i].awayTeamId = up[i].awayTeam.id
                     /\ ms[i].utcDate = up[i].utcDate
                     /\ ms[i].status = up[i].status
                     /\ ms[i].score = up[i].score
                     /\ ms[i].venue = (IF up[i].venue = "<absent>" THEN "N/A" ELSE up[i].venue)
                     /\ DOMAIN ms[i] = {"homeTeam", "homeTeamId", "awayTeam", "awayTeamId",
                                        "utcDate", "venue", "status", "score"}
C17_Witness ==
    \E t \in Threads :
        /\ pc[t] = "done" /\ page[t].has_matches
        /\ Len(page[t].matches) = 3
        /\ page[t].matches[1].venue = "Emirates"
        /\ page[t].matches[2].venue = "N/A"
        /\ page[t].matches[3].homeTeam = "Leeds"

\* C18: the favorites file changes only in the save of an add_favorite
\* request; no step of a /matches or /team request changes it, however the
\* request ends; and a /matches request that reaches its view renders the
\* favorites as stored at that moment, with an error (the message of the
\* failure, or the form's errors) when it has no list to show.
C18_FavoritesUntouched ==
    [][/\ favorites' # favorites =>
             \E t \in Threads :
                 req[t].path = "/favorite" /\ pc[t] = "loaded" /\ pc'[t] = "done"
       /\ \A t \in Threads :
             (req[t].path \in {"/matches", "/team"} /\ pc'[t] # pc[t]) =>
                 favorites' = favorites
       /\ \A t \in Threads :
             (req[t].path = "/matches" /\ pc[t] # "done" /\ pc'[t] = "done"
                 /\ page'[t].status # 429) =>
                 /\ page'[t].favorites = (IF favorites.exists THEN favorites.items ELSE <<>>)
                 /\ ~page'[t].has_matches =>
                       (page'[t].error # None \/ ~page'[t].form_valid)
      ]_vars
C18_Witness ==
    \E t \in Threads :
        /\ pc[t] = "done" /\ req[t].path = "/matches"
        /\ page[t].error = "500 Server Error"
        /\ Len(page[t].favorites) = 1
        /\ favorites.items = page[t].favorites
        /\ added # {}

\* C19: in every state reached through add_favorite requests, interleaved
\* in any way, no two entries of the favorites file have the same id; and an
\* add_favorite for an id that is in the list it loaded leaves the file alone.
C19_NoDuplicateFavorites ==
    /\ [](\A i, j \in 1..Len(favorites.items) :
            i # j => favorites.items[i].id # favorites.items[j].id)
    /\ [][\A t \in Threads :
            (/\ pc[t] = "loaded" /\ pc'[t] = "done"
             /\ \E i \in 1..Len(loaded[t]) : loaded[t][i].id = req[t].team_id)
            => favorites' = favorites
         ]_vars
C19_Witness ==
    \E t \in Threads :
        /\ pc[t] = "done" /\ req[t].path = "/favorite" /\ req[t].team_id = "57"
        /\ Len(loaded[t]) = 2 /\ loaded[t][1].id = "57"
        /\ favorites.items = loaded[t]

\* C20: every team id whose add_favorite request has completed is in the
\* favorites file, in every later state.
C20_FavoritesNeverLost ==
    \A id \in added : \E i \in 1..Len(favorites.items) : favorites.items[i].id = id

====
